---- MODULE Spec2Model ----
(***************************************************************************)
(* Model of the message fetchers of src/diagnostics.js (the part that was  *)
(* enhanced-fetch-messages.js: fetchChatMessagesEnhanced and               *)
(* fetchChatMessagesSimple) and of the retry loop of summarizeConversations *)
(* in src/index.js.                                                         *)
(*                                                                         *)
(* The upstream messaging API and the generative-content API are the       *)
(* environment: every answer they give is drawn nondeterministically when  *)
(* the request is answered.  Instants are small naturals.                  *)
(***************************************************************************)
EXTENDS Integers, Sequences, FiniteSets, TLC

(* ------------------------------ bounds -------------------------------- *)
\* instants that records of the free pages and the window bounds range over
MaxTime == 3
\* largest number of records in one served page
MaxPageLen == 2
\* number of leading pages whose content is unconstrained
MaxFreePages == 1

(* ------------------------- program constants -------------------------- *)
maxPages == 20
recordsPerPage == 250
initialRetries == 3
initialDelay == 2000

(* ------------------------------ values -------------------------------- *)
Times == 0..MaxTime
\* a record newer than every window: the content of a filler page
FillerTime == MaxTime + 1
ChatIds == {"chatX"}
Windows == {<<1, 1>>, <<1, 2>>}
NoToken == 0
Undefined == -1
NoResponse == -2

TeamsRoute(chatId) == <<"teams", chatId>>
\* the fallback keeps the route of the probe
ChatsRouteTeams(chatId) == <<"teams", chatId>>
ChatsRoute(chatId) == <<"chats", chatId>>

VARIABLES
    \* ---- one invocation of a fetcher
    strategy,            \* "enhanced" or "simple"
    fpc,                 \* "idle", "probing", "paging", "done", "failed"
    chatId, dateFrom, dateTo,
    endpoint,
    allMessages, pageToken, pagesProcessed, foundOlderThanRange,
    result,              \* the returned array (meaningful when fpc = "done")
    thrown,              \* the APIError thrown (meaningful when fpc = "failed")
    warned,              \* logger.warn('Reached maximum page limit ...') was called
    apiCallStats,        \* diagnostics.apiCallStats.ringcentral: calls, errors
    \* ---- the upstream API as the fetcher sees it
    requests,            \* every platform.get issued, in order
    nServed,             \* number of page requests answered with a page
    inWindowServed,      \* per instant, the answered records with dateFrom <= t <= dateTo
    olderPage,           \* index of the first answered page with a record older than dateFrom, or 0
    allContinuing,       \* every answered page was non-empty, with a token and no older record
    descending,          \* the answered records were in non-increasing order of creationTime
    lastTime,            \* creationTime of the last answered record
    probeError,          \* the error the probe was rejected with, if any
    closeUsed,           \* the one unconstrained page after the prefix was served
    \* ---- one invocation of the retry loop of summarizeConversations
    spc,                 \* "idle", "calling", "waiting", "done", "failed"
    retries, delay,
    summary,             \* the returned text (meaningful when spc = "done")
    sthrown,             \* the APIError thrown (meaningful when spc = "failed")
    events,              \* the sendEvent('status', ...) calls of the loop, in order
    \* ---- the generative-content API as the loop sees it
    ncalls,              \* number of model.generateContent calls issued
    answers,             \* the answers given to those calls, in order
    waits,               \* the setTimeout delays awaited, in order
    \* ---- DiagnosticsManager: the timers
    clock,               \* performance.now(): time since the process started
    constructed,         \* the DiagnosticsManager exists
    managerStart,        \* this.startTime of the DiagnosticsManager
    timer,               \* the object returned by the last startTimer
    ended,               \* what the last end() returned, with the time really elapsed
    \* ---- DiagnosticsManager: the api call counters
    statsTable,          \* this.apiCallStats: service -> calls, errors, totalTime
    recorded,            \* the recordApiCall invocations made, in order
    \* ---- fetchChatMessagesSmart and a fixed upstream history
    now,                 \* new Date() read by fetchChatMessagesSmart
    daysDifference,      \* its local daysDifference
    feed,                \* chat id -> the upstream's fixed answers; <<>>: not fixed
    runs,                \* the outcomes of the completed earlier runs
    \* ---- a second invocation of fetchChatMessagesEnhanced
    other,               \* the locals of the invocation that is not running
    \* ---- GET /generate-report
    hpc,                 \* position of the handler
    chatIds,             \* the chat ids of the request
    chatIndex,           \* position of the for loop over chatIds
    allConversations,    \* its local allConversations
    sse,                 \* the events written to the response, in order
    requestCount,        \* diagnostics.requestCount
    errorCount,          \* diagnostics.errorCount
    trace,               \* the fetches and summarizations started and ended, in order
    streamEnds,          \* how many times res.end() was called
    \* ---- GET /health
    host,                \* what the checks of the request find on the host
    health,              \* the handler's local health (configValidator.healthCheck())
    healthResponse,      \* the status code and body sent
    \* ---- the logger shared by the requests
    correlationId,       \* logger.correlationId
    generated,           \* how many correlation ids were generated
    reqCorrelationId,    \* request -> its req.correlationId
    rpc,                 \* request -> position of its handler
    logEntries,          \* the entries written to the log file, in order
    \* ---- the two strategies on one first page
    firstPage,           \* the page both are answered: records with ids, token
    orderWindow,         \* <<dateFrom, dateTo>>
    simpleResult,        \* what fetchChatMessagesSimple returned
    enhancedResult,      \* what fetchChatMessagesEnhanced returned
    returned             \* the strategies that have returned

fvars == <<strategy, fpc, chatId, dateFrom, dateTo, endpoint, allMessages,
           pageToken, pagesProcessed, foundOlderThanRange, result, thrown,
           warned, apiCallStats, requests, nServed, inWindowServed, olderPage,
           allContinuing, descending, lastTime, probeError, closeUsed>>

svars == <<spc, retries, delay, summary, sthrown, events, ncalls, answers, waits>>

tvars == <<clock, constructed, managerStart, timer, ended>>

mvars == <<statsTable, recorded>>

qvars == <<now, daysDifference, feed, runs>>

cvars == <<other>>

rvars == <<hpc, chatIds, chatIndex, allConversations, sse, requestCount, errorCount, trace,
           streamEnds>>

hvars == <<host, health, healthResponse>>

lvars == <<correlationId, generated, reqCorrelationId, rpc, logEntries>>

ovars == <<firstPage, orderWindow, simpleResult, enhancedResult, returned>>

vars == <<fvars, svars, tvars, mvars, qvars, cvars, rvars, hvars, lvars, ovars>>

\* what the actions of one component leave alone
nonFetch == <<svars, tvars, mvars, qvars, cvars, rvars, hvars, lvars, ovars>>
nonSummarize == <<fvars, tvars, mvars, qvars, cvars, rvars, hvars, lvars, ovars>>
nonTimer == <<fvars, svars, mvars, qvars, cvars, rvars, hvars, lvars, ovars>>
nonMetrics == <<fvars, svars, tvars, qvars, cvars, rvars, hvars, lvars, ovars>>
nonFed == <<svars, tvars, mvars, cvars, rvars, hvars, lvars, ovars>>
nonConcurrent == <<svars, tvars, mvars, now, daysDifference, runs, rvars, hvars, lvars, ovars>>
nonReport == <<fvars, svars, tvars, qvars, cvars, hvars, lvars, ovars>>
nonHealth == <<fvars, svars, tvars, mvars, qvars, cvars, rvars, lvars, ovars>>
nonLog == <<fvars, svars, tvars, mvars, qvars, cvars, rvars, hvars, ovars>>
nonOrder == <<fvars, svars, tvars, mvars, qvars, cvars, rvars, hvars, lvars>>

(* ------------------------------ more bounds -------------------------- *)
\* last tick of performance.now()
MaxClock == 4
\* number of recordApiCall invocations followed
MaxRecorded == 3
\* latest instant at which fetchChatMessagesSmart runs, in half days
MaxNow == 8
\* number of pages of a fixed upstream history
MaxHistory == 2
\* number of chat ids of one report request
MaxChats == 2

(* ------------------------ pure parts of the code ---------------------- *)
\* both bounds exclusive
InRangeExclusive(t, from, to) == t > from /\ t < to

\* messageTime >= dateFrom && messageTime <= dateTo
InRange(t, from, to) == t >= from /\ t <= to

\* the else-if branch: messageTime < dateFrom
OlderThanRange(t, from, to) == ~InRange(t, from, to) /\ t < from

\* the records of one page that the for loop pushes onto allMessages
PageInRange(recs, from, to) == SelectSeq(recs, LAMBDA r : InRange(r.t, from, to))

\* only the first record of the page is classified
PageHasOlderFirst(recs, from, to) ==
    Len(recs) > 0 /\ ~(recs[1].t >= from /\ recs[1].t <= to) /\ recs[1].t < from

\* whether the for loop sets foundOlderThanRange on this page
PageHasOlder(recs, from, to) ==
    \E i \in 1..Len(recs) : OlderThanRange(recs[i].t, from, to)

\* the operands of the subtraction swapped
CompareCreationTimeReversed(a, b) == b.t - a.t

\* comparator of the final sort: new Date(a.creationTime) - new Date(b.creationTime)
CompareCreationTime(a, b) == a.t - b.t

RECURSIVE InsertSorted(_, _)
InsertSorted(s, r) ==
    IF s = <<>> THEN <<r>>
    ELSE IF CompareCreationTime(s[Len(s)], r) > 0
         THEN Append(InsertSorted(SubSeq(s, 1, Len(s) - 1), r), s[Len(s)])
         ELSE Append(s, r)

\* Array.prototype.sort with that comparator (stable)
RECURSIVE SortMessages(_)
SortMessages(s) ==
    IF s = <<>> THEN <<>>
    ELSE InsertSorted(SortMessages(SubSeq(s, 1, Len(s) - 1)), s[Len(s)])

\* the filtered records are returned in feed order
ReverseOmitted(s) == s

\* Array.prototype.reverse
RECURSIVE Reverse(_)
Reverse(s) == IF s = <<>> THEN <<>> ELSE Append(Reverse(Tail(s)), Head(s))

\* the continuation token of the page is not read
NextPageTokenDropped(tok) == NoToken

\* json.navigation?.nextPageToken || null
NextPageToken(tok) == IF tok = NoToken THEN NoToken ELSE tok

\* the loop without the page cap
LoopContinuesUncapped(pp, found) == ~found

\* the cap compared with <=
LoopContinuesInclusive(pp, found) == pp <= maxPages /\ ~found

\* while (pagesProcessed < maxPages && !foundOlderThanRange)
LoopContinues(pp, found) == pp < maxPages /\ ~found

\* the two break statements after a non-empty page
BreaksAfterPage(found, tok) == found \/ tok = NoToken

\* if (pagesProcessed >= maxPages) logger.warn(...)
WarnsAtEnd(pp) == pp >= maxPages

\* error.response && error.response.status === 404
IsNotFound(err) == err.response # NoResponse /\ err.response = 404

\* qs of a page request: recordCount, and pageToken only when truthy
PageRequest(route, tok) == [route |-> route, recordCount |-> recordsPerPage, pageToken |-> tok]
ProbeRequest(route) == [route |-> route, recordCount |-> 1, pageToken |-> NoToken]

\* new APIError(`Failed to determine endpoint for chat ${chatId}`, error.status, 'RingCentral')
ResolutionError(id, err) ==
    [parts |-> <<"Failed to determine endpoint for chat", id>>,
     status |-> err.status, service |-> "RingCentral"]

\* the zero-based page counter in the message
PageErrorZeroBased(pp, route, err) ==
    [parts |-> <<"Failed to fetch page", pp, "from", route>>,
     status |-> err.status, service |-> "RingCentral"]

\* new APIError(`Failed to fetch page ${pagesProcessed + 1} from ${endpoint}`, error.status, 'RingCentral')
PageError(pp, route, err) ==
    [parts |-> <<"Failed to fetch page", pp + 1, "from", route>>,
     status |-> err.status, service |-> "RingCentral"]

\* new APIError(`Failed to fetch messages from ${endpoint}`, error.status, 'RingCentral')
SimpleError(route, err) ==
    [parts |-> <<"Failed to fetch messages from", route>>,
     status |-> err.status, service |-> "RingCentral"]

\* diagnostics.recordApiCall('ringcentral', duration, error)
RecordApiCall(stats, isError) ==
    [calls |-> stats.calls + 1,
     errors |-> IF isError THEN stats.errors + 1 ELSE stats.errors]

\* String.prototype.includes on strings given as sequences of characters
Includes(str, pat) ==
    \E i \in 1..(Len(str) - Len(pat) + 1) : SubSeq(str, i, i + Len(pat) - 1) = pat

\* the overload recognised by error.status instead of the message
IsOverloadedByStatus(err) == err.status = 503

\* error.message.includes('503')
IsOverloaded(err) == Includes(err.message, <<"5", "0", "3">>)

\* retries--
RetriesAfterOverload(r) == r - 1

\* the retry test with >=
RetryAllowedInclusive(r) == r >= 0

\* if (retries > 0) after the decrement: wait and try again
RetryAllowed(r) == r > 0

\* the delay is not doubled
NextDelayConstant(d) == d

\* delay *= 2
NextDelay(d) == d * 2

\* the event announces the retries before the decrement
BusyEventStale(r, d) == [type |-> "status", waitTime |-> d \div 1000, retriesLeft |-> r + 1]

\* const waitTime = delay / 1000 and the (waitTime, retries) of the status event
BusyEvent(r, d) == [type |-> "status", waitTime |-> d \div 1000, retriesLeft |-> r]

\* new APIError("Gemini API is overloaded after multiple retries.", 503, 'Gemini')
OverloadError ==
    [parts |-> <<"Gemini API is overloaded after multiple retries.">>,
     status |-> 503, service |-> "Gemini"]

\* new APIError(`Gemini API error: ${error.message}`, error.status, 'Gemini')
UpstreamError(err) ==
    [parts |-> <<"Gemini API error:", err.message>>,
     status |-> err.status, service |-> "Gemini"]

\* 1000 * 60 * 60 * 24
DayMs == 1000 * 60 * 60 * 24

\* the model's instants are half days; their value in milliseconds
Instant(t) == t * (DayMs \div 2)

\* Math.ceil(a / b) for b > 0
Ceil(a, b) == 0 - ((0 - a) \div b)

\* the quotient rounded down
DaysDifferenceFloor(n, from) == (Instant(n) - Instant(from)) \div DayMs

\* Math.ceil((now - dateFrom) / (1000 * 60 * 60 * 24))
DaysDifference(n, from) == Ceil(Instant(n) - Instant(from), DayMs)

\* if (daysDifference <= 3) simple else enhanced
SmartStrategy(dd) == IF dd <= 3 THEN "simple" ELSE "enhanced"

\* Date.now() when performance.now() reads c
DateNow(origin, c) == origin + c

\* startTimer(operation): { operation, startTime: performance.now(), end }
NewTimer(operation, c) == [operation |-> operation, startTime |-> c]

\* end: () => { const duration = performance.now() - this.startTime; return { operation, duration } }
\* where this is the DiagnosticsManager
EndResult(tm, mgrStart, c) ==
    [operation |-> tm.operation, duration |-> c - mgrStart]

\* the counters of a service that has none yet
ZeroStats == [calls |-> 0, errors |-> 0, totalTime |-> 0]

\* the constructor's apiCallStats
InitialStatsTable == [svc \in {"ringcentral", "gemini"} |-> ZeroStats]

\* totalTime is assigned instead of accumulated
RecordApiCallAssign(table, service, duration, isError) ==
    LET old == IF service \in DOMAIN table THEN table[service] ELSE ZeroStats
    IN  [svc \in DOMAIN table \cup {service} |->
            IF svc = service
            THEN [calls |-> old.calls + 1,
                  errors |-> IF isError THEN old.errors + 1 ELSE old.errors,
                  totalTime |-> duration]
            ELSE table[svc]]

\* recordApiCall(service, duration, error = null) on the whole table
RecordApiCallIn(table, service, duration, isError) ==
    LET old == IF service \in DOMAIN table THEN table[service] ELSE ZeroStats
    IN  [svc \in DOMAIN table \cup {service} |->
            IF svc = service
            THEN [calls |-> old.calls + 1,
                  errors |-> IF isError THEN old.errors + 1 ELSE old.errors,
                  totalTime |-> old.totalTime + duration]
            ELSE table[svc]]

\* sendEvent(type, message): one more event written to the response
SendEvent(evs, type, message) == Append(evs, [type |-> type, message |-> message])

\* PRESET_CHAT_GROUPS[chatId] || `Custom Group (${chatId})`
GroupName(id) ==
    IF id = "7595909126" THEN <<"Global CC TAM">> ELSE <<"Custom Group", id>>

\* every fetched chat is kept, empty or not
PushConversationAlways(convs, id, messages) ==
    Append(convs, [groupName |-> GroupName(id), messages |-> messages, chatId |-> id])

\* if (messages.length > 0) allConversations.push({ groupName, messages, chatId })
PushConversation(convs, id, messages) ==
    IF Len(messages) > 0
    THEN Append(convs, [groupName |-> GroupName(id), messages |-> messages, chatId |-> id])
    ELSE convs

\* the lines of one conversation: messages without text are left out
ConversationText(convo) ==
    LET withText == SelectSeq(convo.messages, LAMBDA m : m.text # "")
    IN  <<<<"START", convo.groupName>>>>
        \o [i \in 1..Len(withText) |-> <<"line", convo.chatId, withText[i].text>>]
        \o <<<<"END", convo.groupName>>>>

RECURSIVE FullConversationText(_)
\* fullConversationText of summarizeConversations
FullConversationText(convs) ==
    IF convs = <<>> THEN <<>>
    ELSE ConversationText(Head(convs)) \o FullConversationText(Tail(convs))

\* entries of the trace
FetchStart(id) ==
    [op |-> "fetchStart", chatId |-> id, ok |-> TRUE, messages |-> <<>>,
     conversations |-> <<>>, text |-> <<>>]
FetchEnd(id, ok, messages) ==
    [op |-> "fetchEnd", chatId |-> id, ok |-> ok, messages |-> messages,
     conversations |-> <<>>, text |-> <<>>]
SummarizeStart(convs) ==
    [op |-> "summarizeStart", chatId |-> "", ok |-> TRUE, messages |-> <<>>,
     conversations |-> convs, text |-> FullConversationText(convs)]

\* generateCorrelationId(): `req_${Date.now()}_${random}`, a new id on every call
GenerateCorrelationId(n) == n + 1

\* formatMessage: the entry carries this.correlationId; a correlationId given in
\* meta replaces it ({ ..., correlationId, message, ...meta })
LogEntry(r, current, message) ==
    [request |-> r, correlationId |-> current, message |-> message]
LogEntryWithMeta(r, current, message, metaId) ==
    [request |-> r, correlationId |-> metaId, message |-> message]

\* validateEnvironment and validateSpecificConfigs: the errors and warnings
ConfigErrors(h) ==
    (IF h.missing THEN {"Missing required environment variable"} ELSE {})
    \cup (IF ~h.missing /\ ~h.jwtThreeParts THEN {"RC_JWT format"} ELSE {})
    \cup (IF ~h.reportsWritable THEN {"Reports directory not writable"} ELSE {})
ConfigWarnings(h) ==
    (IF ~h.envFile THEN {"No .env file found"} ELSE {})
    \cup (IF ~h.logsWritable THEN {"Logs directory not writable"} ELSE {})

\* healthCheck(): healthy or unhealthy by validation.valid, error when it threw
HealthCheck(h) ==
    IF h.validateThrows
    THEN [status |-> "error", errors |-> {}, warnings |-> {}]
    ELSE [status |-> IF ConfigErrors(h) = {} THEN "healthy" ELSE "unhealthy",
          errors |-> ConfigErrors(h), warnings |-> ConfigWarnings(h)]

\* parseFloat(app.errorRate), in hundredths of a percent
ErrorRate(h) == IF h.requests > 0 THEN (h.errors * 10000) \div h.requests ELSE 0

\* getHealthStatus: the issues and the warnings
SystemIssues(h) ==
    (IF h.heapPercent > 90 THEN {"High memory usage detected"} ELSE {})
    \cup (IF ErrorRate(h) > 1000 THEN {"High error rate"} ELSE {})
    \cup (IF h.missing THEN {"Missing required environment variables"} ELSE {})
    \cup (IF ~h.reportsWritable \/ ~h.logsWritable
          THEN {"Critical directories not accessible or writable"} ELSE {})
SystemWarnings(h) ==
    (IF h.heapPercent <= 90 /\ h.heapPercent > 75 THEN {"Elevated memory usage"} ELSE {})
    \cup (IF ErrorRate(h) <= 1000 /\ ErrorRate(h) > 500 THEN {"Elevated error rate"} ELSE {})

\* issues.length > 0 ? 'unhealthy' : warnings.length > 0 ? 'warning' : 'healthy'
GetHealthStatus(h) ==
    [status |-> IF SystemIssues(h) # {} THEN "unhealthy"
                ELSE IF SystemWarnings(h) # {} THEN "warning" ELSE "healthy",
     issues |-> SystemIssues(h), warnings |-> SystemWarnings(h)]

\* res.status(health.status === 'healthy' ? 200 : 503).json({ status: health.status, ... })
HealthBody(config, system) ==
    [code |-> IF config.status = "healthy" THEN 200 ELSE 503,
     status |-> config.status, config |-> config, system |-> system]

\* the catch block of the handler
HealthFailure ==
    [code |-> 500, status |-> "error",
     config |-> [status |-> "", errors |-> {}, warnings |-> {}],
     system |-> [status |-> "", issues |-> {}, warnings |-> {}]]

(* --------------------------- the environment -------------------------- *)
\* error messages of the generative-content client, as character sequences
GeminiMessages ==
    {<<"5", "0", "3">>,
     <<"[", "5", "0", "3", "]">>,
     <<"5", "0", "0">>,
     <<"5", "0", "0", "3">>,
     <<"4", "2", "9">>,
     <<>>}

\* Date.now() at the instant performance.now() read 0
EpochOrigins == {0, 1000}
TimerLabels == {"rc-login", "gemini-api-call"}
NoTimer == [operation |-> "", startTime |-> Undefined]
NoEnd == [operation |-> "", duration |-> 0, elapsed |-> 0]

\* the flows that record api calls, the service each names, the durations passed
Flows == {"fetch", "summarize", "reports"}
ServiceOf(flow) ==
    CASE flow = "fetch" -> "ringcentral"
      [] flow = "summarize" -> "gemini"
      [] OTHER -> "filesystem"
Durations == {0 - 2, 0, 5}

GeminiErrors == [kind : {"error"}, message : GeminiMessages, status : {503, 400, Undefined}]
GeminiTexts == [kind : {"ok"}, text : {"summaryA", "summaryB"}]

\* errors a platform.get can be rejected with: the HTTP status of the
\* response (NoResponse for a network error), error.status, error.message
NoError == [response |-> NoResponse, status |-> Undefined, message |-> ""]
NoThrown == [parts |-> <<>>, status |-> Undefined, service |-> ""]

Errors ==
    {[response |-> 404, status |-> Undefined, message |-> "Not Found"],
     [response |-> 401, status |-> Undefined, message |-> "Unauthorized"],
     [response |-> 500, status |-> 500, message |-> "Internal Server Error"],
     [response |-> NoResponse, status |-> Undefined, message |-> "ECONNRESET"]}

TimeSeqs == UNION {[1..k -> Times] : k \in 0..MaxPageLen}

\* a page: its records and the continuation token (NoToken: end of history)
MkPage(n, ts, hasNext) ==
    [records |-> [i \in 1..Len(ts) |-> [t |-> ts[i]]],
     token |-> IF hasNext THEN n + 1 ELSE NoToken]

FreePages(n) == {MkPage(n, ts, h) : ts \in TimeSeqs, h \in BOOLEAN}
FillerPage(n) == MkPage(n, <<FillerTime>>, TRUE)

\* fixed upstream histories: pages of creation times, newest page first
NoFeed == <<>>
Nows == 0..MaxNow
FeedPages == {<<>>, <<2, 1>>, <<1, 1>>, <<1, 0>>, <<3, 2>>, <<1, 2>>}
Histories == UNION {[1..k -> FeedPages] : k \in 0..MaxHistory}
\* the answer to the probe, the pages, and the page request that is rejected
Feeds ==
    [probe : {NoError} \cup {e \in Errors : e.response \in {404, 500}},
     pages : Histories, failAt : 0..MaxHistory, endless : {FALSE}]

\* histories for the walks that must end: endless ones repeat their pages, and
\* the cursors with them, for ever
LiveHistories == {<<>>, <<<<3>>>>, <<<<3>>, <<3, 3>>>>, <<<<3, 1>>, <<1, 0>>>>}
LiveFeeds ==
    [probe : {NoError} \cup {e \in Errors : e.response \in {404, 500}},
     pages : LiveHistories, failAt : {0, 3}, endless : BOOLEAN]

\* the n-th page of a history that repeats
EndlessPage(h, n) == MkPage(((n - 1) % Len(h)) + 1, h[((n - 1) % Len(h)) + 1], TRUE)

\* the history has grown by one message between two runs
FeedPageDrifting(n) ==
    LET h == feed[chatId].pages
        first == IF runs # <<>> /\ n = 1 THEN <<2>> ELSE <<>>
    IN  IF feed[chatId].endless /\ h # <<>> THEN EndlessPage(h, n)
        ELSE IF n <= Len(h) THEN MkPage(n, first \o h[n], n < Len(h))
        ELSE MkPage(n, first, FALSE)

\* the n-th page of the fixed history of the chat; past its end, an empty page
FeedPage(n) ==
    LET h == feed[chatId].pages
        first == <<>>
    IN  IF feed[chatId].endless /\ h # <<>> THEN EndlessPage(h, n)
        ELSE IF n <= Len(h) THEN MkPage(n, first \o h[n], n < Len(h))
        ELSE MkPage(n, first, FALSE)

\* first pages whose records carry an id: creation times newest first, ties allowed
MaxTieLen == 3
NonIncreasing(p) == \A i, j \in 1..Len(p) : i < j => p[i] >= p[j]
IdentifiedRecords(p) == [i \in 1..Len(p) |-> [t |-> p[i], id |-> i]]
IdentifiedPages ==
    {[records |-> IdentifiedRecords(p), token |-> tok] :
        p \in {q \in UNION {[1..k -> Times] : k \in 1..MaxTieLen} : NonIncreasing(q)},
        tok \in {NoToken, 1}}
NoPage == <<>>

\* the requests the server handles at the same time
MaxRequests == 2
RequestIds == 1..MaxRequests
NoCorrelation == 0

\* what the host may be like when GET /health runs
Hosts ==
    [missing : BOOLEAN, jwtThreeParts : BOOLEAN, envFile : BOOLEAN,
     reportsWritable : BOOLEAN, logsWritable : BOOLEAN,
     heapPercent : {50, 80, 95}, requests : {0, 20}, errors : {0, 2, 3},
     validateThrows : BOOLEAN, reportThrows : BOOLEAN]
NoHost == <<>>
NoHealth == <<>>
NoHealthResponse == <<>>

\* the requests of a report: their chat ids, what a fetch returns, the durations
\* the timers give
ReportChatIds == {"7595909126", "42"}
ChatIdLists == UNION {[1..k -> ReportChatIds] : k \in 1..MaxChats}
FetchedMessages == {<<>>, <<[text |-> "hi"]>>, <<[text |-> "hi"], [text |-> ""]>>}
HandlerDurations == {5}
Causes == {"APIError", "Error"}

\* the histories and answers of two chats fetched at the same time
OtherChatIds == {"chatY"}
ConcurrentHistories ==
    {<<>>, <<<<2, 1>>>>, <<<<2, 1>>, <<1, 0>>>>, <<<<1, 1>>, <<2, 1>>>>}
ConcurrentFeeds ==
    [probe : {NoError} \cup {e \in Errors : e.response = 404},
     pages : ConcurrentHistories, failAt : {0, 2}, endless : {FALSE}]
NoOther == <<>>

\* the answers to the n-th page request: free, or the fixed history's
Upstream(n, free) == IF feed = NoFeed THEN free ELSE {FeedPage(n)}

\* the pages of at most one record
ShortPages(n) == {p \in FreePages(n) : Len(p.records) <= 1}

\* the answers the upstream may give to the n-th page request: any page within
\* the free prefix, then filler pages, with one more short page anywhere
ServerPages(n) ==
    Upstream(n, IF n <= MaxFreePages THEN FreePages(n) \cup {FillerPage(n)}
                ELSE IF ~closeUsed THEN ShortPages(n) \cup {FillerPage(n)}
                ELSE {FillerPage(n)})

\* what the upstream has answered so far, kept beside the fetcher's own state
Answered(page) ==
    LET recs == page.records
        n == Len(recs)
    IN  /\ nServed' = nServed + 1
        /\ inWindowServed' =
              [t \in Times |-> inWindowServed[t]
                  + Cardinality({i \in 1..n : recs[i].t = t /\ dateFrom <= t /\ t <= dateTo})]
        /\ olderPage' = IF olderPage = 0 /\ \E i \in 1..n : recs[i].t < dateFrom
                        THEN nServed + 1 ELSE olderPage
        /\ allContinuing' = (/\ allContinuing
                             /\ n > 0
                             /\ page.token # NoToken
                             /\ \A i \in 1..n : recs[i].t >= dateFrom)
        /\ descending' = (/\ descending
                          /\ n > 0 => recs[1].t <= lastTime
                          /\ \A i \in 1..(n - 1) : recs[i].t >= recs[i + 1].t)
        /\ lastTime' = IF n > 0 THEN recs[n].t ELSE lastTime

(* -------------------------------- Init -------------------------------- *)
FetchInit ==
    /\ strategy = "enhanced"
    /\ fpc = "idle"
    /\ chatId = "chatX"
    /\ dateFrom = 1 /\ dateTo = 1
    /\ endpoint = <<>>
    /\ allMessages = <<>>
    /\ pageToken = NoToken
    /\ pagesProcessed = 0
    /\ foundOlderThanRange = FALSE
    /\ result = <<>>
    /\ thrown = NoThrown
    /\ warned = FALSE
    /\ apiCallStats = [calls |-> 0, errors |-> 0]
    /\ requests = <<>>
    /\ nServed = 0
    /\ inWindowServed = [t \in Times |-> 0]
    /\ olderPage = 0
    /\ allContinuing = TRUE
    /\ descending = TRUE
    /\ lastTime = FillerTime
    /\ probeError = NoError
    /\ closeUsed = FALSE

SummarizeInit ==
    /\ spc = "idle"
    /\ retries = 0
    /\ delay = 0
    /\ summary = ""
    /\ sthrown = NoThrown
    /\ events = <<>>
    /\ ncalls = 0
    /\ answers = <<>>
    /\ waits = <<>>

TimerInit ==
    /\ clock = 0
    /\ constructed = FALSE
    /\ managerStart = 0
    /\ timer = NoTimer
    /\ ended = NoEnd

MetricsInit ==
    /\ statsTable = InitialStatsTable
    /\ recorded = <<>>

ConcurrentInit == other = NoOther

OrderInit ==
    /\ firstPage = NoPage
    /\ orderWindow = <<>>
    /\ simpleResult = <<>>
    /\ enhancedResult = <<>>
    /\ returned = {}

LogInit ==
    /\ correlationId = NoCorrelation
    /\ generated = 0
    /\ reqCorrelationId = [r \in RequestIds |-> NoCorrelation]
    /\ rpc = [r \in RequestIds |-> "none"]
    /\ logEntries = <<>>

HealthInit ==
    /\ host = NoHost
    /\ health = NoHealth
    /\ healthResponse = NoHealthResponse

ReportInit ==
    /\ hpc = "idle"
    /\ chatIds = <<>>
    /\ chatIndex = 0
    /\ allConversations = <<>>
    /\ sse = <<>>
    /\ requestCount = 0
    /\ errorCount = 0
    /\ trace = <<>>
    /\ streamEnds = 0

FedInit ==
    /\ now = 0
    /\ daysDifference = 0
    /\ feed = NoFeed
    /\ runs = <<>>

Init == FetchInit /\ SummarizeInit /\ TimerInit /\ MetricsInit /\ FedInit
        /\ ConcurrentInit /\ ReportInit /\ HealthInit /\ LogInit
        /\ OrderInit

(* ------------------------------ fetchers ------------------------------ *)
\* the call: locals are initialised and the probe of the teams route is issued
Invoke ==
    /\ fpc = "idle"
    /\ \E s \in {"enhanced", "simple"}, id \in ChatIds, w \in Windows :
          /\ strategy' = s
          /\ chatId' = id
          /\ dateFrom' = w[1] /\ dateTo' = w[2]
          /\ endpoint' = TeamsRoute(id)
          /\ requests' = Append(requests, ProbeRequest(TeamsRoute(id)))
    /\ fpc' = "probing"
    /\ UNCHANGED <<allMessages, pageToken, pagesProcessed, foundOlderThanRange,
                   result, thrown, warned, apiCallStats, nServed, inWindowServed,
                   olderPage, allContinuing, descending, lastTime, probeError, closeUsed>>

\* the probe answered 2xx: the teams route is kept, the first page is requested
ProbeOk ==
    /\ fpc = "probing"
    /\ fpc' = "paging"
    /\ requests' = Append(requests, PageRequest(endpoint, NoToken))
    /\ UNCHANGED <<strategy, chatId, dateFrom, dateTo, endpoint, allMessages, pageToken,
                   pagesProcessed, foundOlderThanRange, result, thrown, warned,
                   apiCallStats, nServed, inWindowServed, olderPage, allContinuing,
                   descending, lastTime, probeError, closeUsed>>

\* the probe was rejected: 404 selects the chats route, anything else throws
ProbeRejected ==
    /\ fpc = "probing"
    /\ \E err \in Errors :
          /\ probeError' = err
          /\ IF IsNotFound(err)
             THEN /\ endpoint' = ChatsRoute(chatId)
                  /\ fpc' = "paging"
                  /\ requests' = Append(requests, PageRequest(ChatsRoute(chatId), NoToken))
                  /\ UNCHANGED thrown
             ELSE /\ thrown' = ResolutionError(chatId, err)
                  /\ fpc' = "failed"
                  /\ UNCHANGED <<endpoint, requests>>
    /\ UNCHANGED <<strategy, chatId, dateFrom, dateTo, allMessages, pageToken,
                   pagesProcessed, foundOlderThanRange, result, warned,
                   apiCallStats, nServed, inWindowServed, olderPage, allContinuing,
                   descending, lastTime, closeUsed>>

\* one iteration of the while loop of fetchChatMessagesEnhanced on an answered
\* page, up to the next platform.get or the return
PageAnswered ==
    /\ fpc = "paging" /\ strategy = "enhanced"
    /\ \E page \in ServerPages(pagesProcessed + 1) :
         LET recs   == page.records
             empty  == Len(recs) = 0
             msgs   == IF empty THEN allMessages
                       ELSE allMessages \o PageInRange(recs, dateFrom, dateTo)
             found  == IF empty THEN foundOlderThanRange
                       ELSE foundOlderThanRange \/ PageHasOlder(recs, dateFrom, dateTo)
             tok    == IF empty THEN pageToken ELSE NextPageToken(page.token)
             pp     == IF empty THEN pagesProcessed ELSE pagesProcessed + 1
             broke  == empty \/ BreaksAfterPage(found, tok)
             again  == ~broke /\ LoopContinues(pp, found)
         IN  /\ Answered(page)
             /\ closeUsed' = (closeUsed \/ (pagesProcessed + 1 > MaxFreePages
                                             /\ page # FillerPage(pagesProcessed + 1)))
             /\ allMessages' = msgs
             /\ foundOlderThanRange' = found
             /\ pageToken' = tok
             /\ pagesProcessed' = pp
             /\ apiCallStats' = IF broke THEN apiCallStats
                                ELSE RecordApiCall(apiCallStats, FALSE)
             /\ IF again
                THEN /\ requests' = Append(requests, PageRequest(endpoint, tok))
                     /\ UNCHANGED <<fpc, result, warned>>
                ELSE /\ warned' = WarnsAtEnd(pp)
                     /\ result' = SortMessages(msgs)
                     /\ fpc' = "done"
                     /\ UNCHANGED requests
    /\ UNCHANGED <<strategy, chatId, dateFrom, dateTo, endpoint, thrown, probeError>>

\* the catch block of the loop: a page request (or resp.json()) was rejected
PageRejected ==
    /\ fpc = "paging" /\ strategy = "enhanced"
    /\ \E err \in Errors :
          thrown' = PageError(pagesProcessed, endpoint, err)
    /\ apiCallStats' = RecordApiCall(apiCallStats, TRUE)
    /\ fpc' = "failed"
    /\ UNCHANGED <<strategy, chatId, dateFrom, dateTo, endpoint, allMessages, pageToken,
                   pagesProcessed, foundOlderThanRange, result, warned, requests,
                   nServed, inWindowServed, olderPage, allContinuing, descending,
                   lastTime, probeError, closeUsed>>

\* fetchChatMessagesSimple: the single page answered
SimpleAnswered ==
    /\ fpc = "paging" /\ strategy = "simple"
    /\ \E page \in Upstream(1, FreePages(1)) :
          /\ Answered(page)
          /\ result' = Reverse(PageInRange(page.records, dateFrom, dateTo))
    /\ fpc' = "done"
    /\ UNCHANGED <<strategy, chatId, dateFrom, dateTo, endpoint, allMessages, pageToken,
                   pagesProcessed, foundOlderThanRange, thrown, warned, apiCallStats,
                   requests, probeError, closeUsed>>

\* fetchChatMessagesSimple: the single page request rejected
SimpleRejected ==
    /\ fpc = "paging" /\ strategy = "simple"
    /\ \E err \in Errors :
          thrown' = SimpleError(endpoint, err)
    /\ fpc' = "failed"
    /\ UNCHANGED <<strategy, chatId, dateFrom, dateTo, endpoint, allMessages, pageToken,
                   pagesProcessed, foundOlderThanRange, result, warned, apiCallStats,
                   requests, nServed, inWindowServed, olderPage, allContinuing,
                   descending, lastTime, probeError, closeUsed>>

FetchNext ==
    \/ Invoke /\ UNCHANGED nonFetch
    \/ ProbeOk /\ UNCHANGED nonFetch
    \/ ProbeRejected /\ UNCHANGED nonFetch
    \/ PageAnswered /\ UNCHANGED nonFetch
    \/ PageRejected /\ UNCHANGED nonFetch
    \/ SimpleAnswered /\ UNCHANGED nonFetch
    \/ SimpleRejected /\ UNCHANGED nonFetch

SpecFetch == Init /\ [][FetchNext]_vars

(* -------------------- summarizeConversations: retry loop -------------- *)
\* let retries = 3; let delay = 2000; the first model.generateContent call
StartSummarize ==
    /\ spc = "idle"
    /\ retries' = initialRetries
    /\ delay' = initialDelay
    /\ ncalls' = ncalls + 1
    /\ spc' = "calling"
    /\ UNCHANGED <<summary, sthrown, events, answers, waits>>

\* generateContent resolved: return result.response.text()
GenerateOk ==
    /\ spc = "calling"
    /\ \E ans \in GeminiTexts :
          /\ answers' = Append(answers, ans)
          /\ summary' = ans.text
    /\ spc' = "done"
    /\ UNCHANGED <<retries, delay, sthrown, events, ncalls, waits>>

\* generateContent rejected: the catch block, up to the setTimeout or the throw
GenerateRejected ==
    /\ spc = "calling"
    /\ \E err \in GeminiErrors :
          /\ answers' = Append(answers, err)
          /\ IF IsOverloaded(err)
             THEN /\ retries' = RetriesAfterOverload(retries)
                  /\ IF RetryAllowed(RetriesAfterOverload(retries))
                     THEN /\ events' = Append(events, BusyEvent(RetriesAfterOverload(retries), delay))
                          /\ waits' = Append(waits, delay)
                          /\ spc' = "waiting"
                          /\ UNCHANGED sthrown
                     ELSE /\ sthrown' = OverloadError
                          /\ spc' = "failed"
                          /\ UNCHANGED <<events, waits>>
             ELSE /\ sthrown' = UpstreamError(err)
                  /\ spc' = "failed"
                  /\ UNCHANGED <<retries, events, waits>>
    /\ UNCHANGED <<delay, summary, ncalls>>

\* the timeout fired: delay *= 2, the loop test, the next generateContent call
WaitElapsed ==
    /\ spc = "waiting"
    /\ delay' = NextDelay(delay)
    /\ ncalls' = ncalls + 1
    /\ spc' = "calling"
    /\ UNCHANGED <<retries, summary, sthrown, events, answers, waits>>

SummarizeNext ==
    \/ StartSummarize /\ UNCHANGED nonSummarize
    \/ GenerateOk /\ UNCHANGED nonSummarize
    \/ GenerateRejected /\ UNCHANGED nonSummarize
    \/ WaitElapsed /\ UNCHANGED nonSummarize

SpecSummarize == Init /\ [][SummarizeNext]_vars

(* ------------- fetchChatMessagesSmart on a fixed history -------------- *)
\* fetchChatMessagesSmart up to the probe of the fetcher it delegates to
SmartInvoke ==
    /\ fpc = "idle"
    /\ \E n \in Nows, id \in ChatIds, w \in Windows, h \in Feeds :
          /\ now' = n
          /\ daysDifference' = DaysDifference(n, w[1])
          /\ strategy' = SmartStrategy(DaysDifference(n, w[1]))
          /\ feed' = [c \in {id} |-> h]
          /\ chatId' = id
          /\ dateFrom' = w[1] /\ dateTo' = w[2]
          /\ endpoint' = TeamsRoute(id)
          /\ requests' = Append(requests, ProbeRequest(TeamsRoute(id)))
    /\ fpc' = "probing"
    /\ UNCHANGED <<allMessages, pageToken, pagesProcessed, foundOlderThanRange,
                   result, thrown, warned, apiCallStats, nServed, inWindowServed,
                   olderPage, allContinuing, descending, lastTime, probeError, closeUsed>>
    /\ UNCHANGED runs

\* the fetcher chosen is invoked again with the same arguments: its locals are
\* new, the counters of the module go on
Rerun ==
    /\ fpc \in {"done", "failed"}
    /\ feed # NoFeed
    /\ runs = <<>>
    /\ runs' = <<[failed |-> fpc = "failed", result |-> result, requests |-> requests]>>
    /\ endpoint' = TeamsRoute(chatId)
    /\ requests' = <<ProbeRequest(TeamsRoute(chatId))>>
    /\ fpc' = "probing"
    /\ allMessages' = <<>>
    /\ pageToken' = NoToken
    /\ pagesProcessed' = 0
    /\ foundOlderThanRange' = FALSE
    /\ result' = <<>>
    /\ thrown' = NoThrown
    /\ warned' = FALSE
    /\ nServed' = 0
    /\ inWindowServed' = [t \in Times |-> 0]
    /\ olderPage' = 0
    /\ allContinuing' = TRUE
    /\ descending' = TRUE
    /\ lastTime' = FillerTime
    /\ probeError' = NoError
    /\ closeUsed' = FALSE
    /\ UNCHANGED <<strategy, chatId, dateFrom, dateTo, apiCallStats, now, daysDifference, feed>>

\* the upstream's answers are fixed
Selected == feed # NoFeed

\* the fixed upstream rejects exactly the page request numbered failAt
FeedRejectsPage == feed[chatId].failAt = nServed + 1

FedNext ==
    \/ SmartInvoke /\ UNCHANGED nonFed
    \/ Rerun /\ UNCHANGED nonFed
    \/ Selected /\ feed[chatId].probe = NoError /\ ProbeOk /\ UNCHANGED nonFetch
    \/ Selected /\ ProbeRejected /\ probeError' = feed[chatId].probe /\ UNCHANGED nonFetch
    \/ Selected /\ ~FeedRejectsPage /\ PageAnswered /\ UNCHANGED nonFetch
    \/ Selected /\ FeedRejectsPage /\ PageRejected /\ UNCHANGED nonFetch
    \/ Selected /\ ~FeedRejectsPage /\ SimpleAnswered /\ UNCHANGED nonFetch
    \/ Selected /\ FeedRejectsPage /\ SimpleRejected /\ UNCHANGED nonFetch

SpecFed == Init /\ [][FedNext]_vars

(* ------------- two invocations of fetchChatMessagesEnhanced ----------- *)
\* the locals of the running invocation, with what the upstream answered to it
Locals ==
    [strategy |-> strategy, fpc |-> fpc, chatId |-> chatId, dateFrom |-> dateFrom,
     dateTo |-> dateTo, endpoint |-> endpoint, allMessages |-> allMessages,
     pageToken |-> pageToken, pagesProcessed |-> pagesProcessed,
     foundOlderThanRange |-> foundOlderThanRange, result |-> result, thrown |-> thrown,
     warned |-> warned, requests |-> requests, nServed |-> nServed,
     inWindowServed |-> inWindowServed, olderPage |-> olderPage,
     allContinuing |-> allContinuing, descending |-> descending, lastTime |-> lastTime,
     probeError |-> probeError, closeUsed |-> closeUsed]

\* the locals of an invocation up to its first await
Started(id, w) ==
    [strategy |-> "enhanced", fpc |-> "probing", chatId |-> id, dateFrom |-> w[1],
     dateTo |-> w[2], endpoint |-> TeamsRoute(id), allMessages |-> <<>>,
     pageToken |-> NoToken, pagesProcessed |-> 0,
     foundOlderThanRange |-> FALSE, result |-> <<>>, thrown |-> NoThrown,
     warned |-> FALSE, requests |-> <<ProbeRequest(TeamsRoute(id))>>, nServed |-> 0,
     inWindowServed |-> [t \in Times |-> 0], olderPage |-> 0,
     allContinuing |-> TRUE, descending |-> TRUE, lastTime |-> FillerTime,
     probeError |-> NoError, closeUsed |-> FALSE]

\* allMessages is one array of the module, shared by the invocations
ResumeSharedMessages(saved, running) ==
    [saved EXCEPT !.allMessages = running.allMessages]

\* what an invocation finds when it resumes after an await: its own locals
Resume(saved, running) == saved

\* the locals l become the running invocation's
Run(l) ==
    /\ strategy' = l.strategy /\ fpc' = l.fpc /\ chatId' = l.chatId
    /\ dateFrom' = l.dateFrom /\ dateTo' = l.dateTo /\ endpoint' = l.endpoint
    /\ allMessages' = l.allMessages /\ pageToken' = l.pageToken
    /\ pagesProcessed' = l.pagesProcessed
    /\ foundOlderThanRange' = l.foundOlderThanRange
    /\ result' = l.result /\ thrown' = l.thrown /\ warned' = l.warned
    /\ requests' = l.requests /\ nServed' = l.nServed
    /\ inWindowServed' = l.inWindowServed /\ olderPage' = l.olderPage
    /\ allContinuing' = l.allContinuing /\ descending' = l.descending
    /\ lastTime' = l.lastTime /\ probeError' = l.probeError
    /\ closeUsed' = l.closeUsed

\* two calls of fetchChatMessagesEnhanced for two chats, each run up to its
\* first await
InvokeBoth ==
    /\ fpc = "idle"
    /\ \E idA \in ChatIds, idB \in OtherChatIds, wA \in Windows, wB \in Windows,
          hA \in ConcurrentFeeds, hB \in ConcurrentFeeds :
          /\ feed' = [c \in {idA, idB} |-> IF c = idA THEN hA ELSE hB]
          /\ Run(Started(idA, wA))
          /\ other' = Started(idB, wB)
    /\ UNCHANGED apiCallStats

\* the event loop resumes the other invocation at its await
Switch ==
    /\ other # NoOther
    /\ Run(Resume(other, Locals))
    /\ other' = Locals
    /\ UNCHANGED <<apiCallStats, feed>>

ConcurrentNext ==
    \/ InvokeBoth /\ UNCHANGED nonConcurrent
    \/ Switch /\ UNCHANGED nonConcurrent
    \/ Selected /\ feed[chatId].probe = NoError /\ ProbeOk /\ UNCHANGED nonFetch
    \/ Selected /\ ProbeRejected /\ probeError' = feed[chatId].probe /\ UNCHANGED nonFetch
    \/ Selected /\ ~FeedRejectsPage /\ PageAnswered /\ UNCHANGED nonFetch
    \/ Selected /\ FeedRejectsPage /\ PageRejected /\ UNCHANGED nonFetch

SpecConcurrent == Init /\ [][ConcurrentNext]_vars

(* --------------------------- GET /generate-report --------------------- *)
\* diagnostics.recordApiCall(service, duration, error) of the handler
HandlerRecords(service, isError) ==
    \E d \in HandlerDurations :
        /\ statsTable' = RecordApiCallIn(statsTable, service, d, isError)
        /\ recorded' = Append(recorded, [flow |-> "reports", service |-> service,
                                          duration |-> d, error |-> isError])

\* a catch block that reports the error and lets the handler run on to its end
CaughtThenDone(evs, cause) ==
    /\ sse' = SendEvent(SendEvent(evs, "error", cause), "done", "")
    /\ requestCount' = requestCount + 1
    /\ errorCount' = errorCount + 1
    /\ streamEnds' = streamEnds + 1
    /\ hpc' = "ended"

\* the catch and finally blocks: the error event, recordRequest(error), res.end()
Caught(evs, cause) ==
    /\ sse' = SendEvent(evs, "error", cause)
    /\ requestCount' = requestCount + 1
    /\ errorCount' = errorCount + 1
    /\ streamEnds' = streamEnds + 1
    /\ hpc' = "ended"

\* the handler from the end of the i-th iteration of the for loop up to its
\* next await or its return
Continue(i, convs, evs, tr) ==
    IF i < Len(chatIds)
    THEN /\ chatIndex' = i + 1
         /\ sse' = SendEvent(evs, "status", "Fetching messages")
         /\ trace' = Append(tr, FetchStart(chatIds[i + 1]))
         /\ hpc' = "fetching"
         /\ UNCHANGED <<requestCount, errorCount, streamEnds>>
    ELSE IF Len(convs) = 0
    THEN /\ sse' = SendEvent(SendEvent(evs, "status", "No new messages found"), "done", "")
         /\ trace' = tr
         /\ streamEnds' = streamEnds + 1
         /\ hpc' = "ended"
         /\ UNCHANGED <<chatIndex, requestCount, errorCount>>
    ELSE /\ sse' = SendEvent(evs, "status", "Analyzing conversations")
         /\ trace' = Append(tr, SummarizeStart(convs))
         /\ hpc' = "summarizing"
         /\ UNCHANGED <<chatIndex, requestCount, errorCount, streamEnds>>

\* the middleware and the handler up to await configValidator.validateAndThrow()
Request ==
    /\ hpc = "idle"
    /\ \E ids \in ChatIdLists : chatIds' = ids
    /\ requestCount' = requestCount + 1
    /\ sse' = SendEvent(sse, "status", "Validating configuration")
    /\ hpc' = "validating"
    /\ UNCHANGED <<chatIndex, allConversations, errorCount, trace, streamEnds, mvars>>

\* the configuration is valid: up to await platform.login
ValidateOk ==
    /\ hpc = "validating"
    /\ sse' = SendEvent(SendEvent(sse, "status", "Initializing SDKs"),
                        "status", "Logging into RingCentral")
    /\ hpc' = "login"
    /\ UNCHANGED <<chatIds, chatIndex, allConversations, requestCount, errorCount,
                   trace, streamEnds, mvars>>

ValidateFailed ==
    /\ hpc = "validating"
    /\ Caught(sse, "ConfigError")
    /\ UNCHANGED <<chatIds, chatIndex, allConversations, trace, mvars>>

\* logged in: up to the first await fetchChatMessagesSmart
LoginOk ==
    /\ hpc = "login"
    /\ HandlerRecords("ringcentral", FALSE)
    /\ IF Len(chatIds) = 0
       THEN /\ Caught(SendEvent(sse, "status", "Successfully logged in"), "ConfigError")
            /\ UNCHANGED <<chatIndex, trace>>
       ELSE Continue(0, <<>>, SendEvent(sse, "status", "Successfully logged in"), trace)
    /\ UNCHANGED <<chatIds, allConversations>>

LoginFailed ==
    /\ hpc = "login"
    /\ HandlerRecords("ringcentral", TRUE)
    /\ Caught(sse, "APIError")
    /\ UNCHANGED <<chatIds, chatIndex, allConversations, trace>>

\* fetchChatMessagesSmart returned: the rest of the iteration, then the next
\* iteration up to its await, or the code after the loop
FetchReturned ==
    /\ hpc = "fetching"
    /\ \E messages \in FetchedMessages :
         LET id == chatIds[chatIndex]
             convs == PushConversation(allConversations, id, messages)
         IN  /\ allConversations' = convs
             /\ Continue(chatIndex, convs, SendEvent(sse, "status", "Found messages"),
                         Append(trace, FetchEnd(id, TRUE, messages)))
    /\ HandlerRecords("ringcentral", FALSE)
    /\ UNCHANGED chatIds

\* a catch block that records the failure and goes on with the next chat
FetchThrewSwallowed ==
    /\ hpc = "fetching"
    /\ HandlerRecords("ringcentral", TRUE)
    /\ Continue(chatIndex, allConversations, sse,
                Append(trace, FetchEnd(chatIds[chatIndex], FALSE, <<>>)))
    /\ UNCHANGED <<chatIds, allConversations>>

\* fetchChatMessagesSmart threw: recorded, thrown again, caught
FetchThrew ==
    /\ hpc = "fetching"
    /\ HandlerRecords("ringcentral", TRUE)
    /\ \E cause \in Causes : Caught(sse, cause)
    /\ trace' = Append(trace, FetchEnd(chatIds[chatIndex], FALSE, <<>>))
    /\ UNCHANGED <<chatIds, chatIndex, allConversations>>

\* summarizeConversations returned: const summary is a binding of the try block
\* (line 298), so generateMarkdownReport(summary, ...) at line 311 throws a
\* ReferenceError, which is caught
SummarizeReturned ==
    /\ hpc = "summarizing"
    /\ HandlerRecords("gemini", FALSE)
    /\ Caught(SendEvent(SendEvent(sse, "status", "Analysis complete"),
                        "status", "Saving report file"), "ReferenceError")
    /\ UNCHANGED <<chatIds, chatIndex, allConversations, trace>>

SummarizeThrew ==
    /\ hpc = "summarizing"
    /\ HandlerRecords("gemini", TRUE)
    /\ \E cause \in Causes : Caught(sse, cause)
    /\ UNCHANGED <<chatIds, chatIndex, allConversations, trace>>

ReportNext ==
    \/ Request /\ UNCHANGED nonReport
    \/ ValidateOk /\ UNCHANGED nonReport
    \/ ValidateFailed /\ UNCHANGED nonReport
    \/ LoginOk /\ UNCHANGED nonReport
    \/ LoginFailed /\ UNCHANGED nonReport
    \/ FetchReturned /\ UNCHANGED nonReport
    \/ FetchThrew /\ UNCHANGED nonReport
    \/ SummarizeReturned /\ UNCHANGED nonReport
    \/ SummarizeThrew /\ UNCHANGED nonReport

SpecReport == Init /\ [][ReportNext]_vars

(* -------------- a fetch then a summarization, each answered ----------- *)
\* fetchChatMessagesEnhanced up to its probe, on a history that may never end
LiveInvoke ==
    /\ fpc = "idle"
    /\ \E id \in ChatIds, w \in Windows, h \in LiveFeeds :
          /\ feed' = [c \in {id} |-> h]
          /\ Run(Started(id, w))
    /\ UNCHANGED <<apiCallStats, now, daysDifference, runs>>

\* the upstream answers the request of the fetcher that is pending
LiveFetchAnswer ==
    \/ Selected /\ feed[chatId].probe = NoError /\ ProbeOk /\ UNCHANGED nonFetch
    \/ Selected /\ ProbeRejected /\ probeError' = feed[chatId].probe /\ UNCHANGED nonFetch
    \/ Selected /\ ~FeedRejectsPage /\ PageAnswered /\ UNCHANGED nonFetch
    \/ Selected /\ FeedRejectsPage /\ PageRejected /\ UNCHANGED nonFetch

\* generateContent answers, or the timeout of the wait fires
LiveSummarizeStep ==
    \/ GenerateOk /\ UNCHANGED nonSummarize
    \/ GenerateRejected /\ UNCHANGED nonSummarize
    \/ WaitElapsed /\ UNCHANGED nonSummarize

LiveNext ==
    \/ LiveInvoke /\ UNCHANGED nonFed
    \/ LiveFetchAnswer
    \/ fpc = "done" /\ StartSummarize /\ UNCHANGED nonSummarize
    \/ LiveSummarizeStep

\* every request is answered in the end, every timeout fires
SpecLive ==
    Init /\ [][LiveNext]_vars /\ WF_vars(LiveFetchAnswer) /\ WF_vars(LiveSummarizeStep)

(* ------------------------------ GET /health --------------------------- *)
\* the request arrives: the handler up to await configValidator.healthCheck()
HealthRequest ==
    /\ host = NoHost
    /\ \E h \in Hosts : h.errors <= h.requests /\ host' = h
    /\ UNCHANGED <<health, healthResponse>>

\* healthCheck() resolved: up to await diagnostics.generateDiagnosticReport()
HealthChecked ==
    /\ host # NoHost /\ health = NoHealth
    /\ health' = HealthCheck(host)
    /\ UNCHANGED <<host, healthResponse>>

\* generateDiagnosticReport() resolved: the response is sent
HealthReported ==
    /\ health # NoHealth /\ healthResponse = NoHealthResponse
    /\ ~host.reportThrows
    /\ healthResponse' = HealthBody(health, GetHealthStatus(host))
    /\ UNCHANGED <<host, health>>

\* generateDiagnosticReport() rejected: the catch block answers 500
HealthReportThrew ==
    /\ health # NoHealth /\ healthResponse = NoHealthResponse
    /\ host.reportThrows
    /\ healthResponse' = HealthFailure
    /\ UNCHANGED <<host, health>>

HealthNext ==
    \/ HealthRequest /\ UNCHANGED nonHealth
    \/ HealthChecked /\ UNCHANGED nonHealth
    \/ HealthReported /\ UNCHANGED nonHealth
    \/ HealthReportThrew /\ UNCHANGED nonHealth

SpecHealth == Init /\ [][HealthNext]_vars

(* ----------------- the logger under concurrent requests --------------- *)
\* the catch and finally blocks of the handler: 'Report generation failed',
\* then 'Report generation completed' with meta correlationId: req.correlationId
HandlerFailed(r) ==
    /\ logEntries' = logEntries
          \o <<LogEntry(r, correlationId, "Report generation failed"),
               LogEntryWithMeta(r, correlationId, "Report generation completed",
                                reqCorrelationId[r])>>
    /\ rpc' = [rpc EXCEPT ![r] = "ended"]
    /\ UNCHANGED <<correlationId, generated, reqCorrelationId>>

\* a request arrives: the middleware, then the handler up to its first await
Arrive(r) ==
    /\ rpc[r] = "none"
    /\ LET id == GenerateCorrelationId(generated)
       IN  /\ generated' = id
           /\ correlationId' = id
           /\ reqCorrelationId' = [reqCorrelationId EXCEPT ![r] = id]
           /\ logEntries' = logEntries
                 \o <<LogEntry(r, id, "Incoming Request"),
                      LogEntry(r, id, "Starting report generation")>>
    /\ rpc' = [rpc EXCEPT ![r] = "validating"]

\* validateAndThrow() resolved: up to await platform.login
Validated(r) ==
    /\ rpc[r] = "validating"
    /\ rpc' = [rpc EXCEPT ![r] = "login"]
    /\ UNCHANGED <<correlationId, generated, reqCorrelationId, logEntries>>

ValidationRejected(r) == rpc[r] = "validating" /\ HandlerFailed(r)

\* platform.login resolved: up to await fetchChatMessagesSmart
LoggedIn(r) ==
    /\ rpc[r] = "login"
    /\ logEntries' = logEntries
          \o <<LogEntry(r, correlationId, "RingCentral login successful"),
               LogEntry(r, correlationId, "Report parameters")>>
    /\ rpc' = [rpc EXCEPT ![r] = "fetching"]
    /\ UNCHANGED <<correlationId, generated, reqCorrelationId>>

LoginRejected(r) == rpc[r] = "login" /\ HandlerFailed(r)

\* the fetch of the only chat resolved without messages: up to res.end()
Fetched(r) ==
    /\ rpc[r] = "fetching"
    /\ logEntries' = logEntries
          \o <<LogEntry(r, correlationId, "Messages fetched"),
               LogEntry(r, correlationId, "No messages found in date range"),
               LogEntryWithMeta(r, correlationId, "Report generation completed",
                                reqCorrelationId[r])>>
    /\ rpc' = [rpc EXCEPT ![r] = "ended"]
    /\ UNCHANGED <<correlationId, generated, reqCorrelationId>>

FetchRejected(r) == rpc[r] = "fetching" /\ HandlerFailed(r)

LogNext ==
    \/ \E r \in RequestIds : Arrive(r) /\ UNCHANGED nonLog
    \/ \E r \in RequestIds : Validated(r) /\ UNCHANGED nonLog
    \/ \E r \in RequestIds : ValidationRejected(r) /\ UNCHANGED nonLog
    \/ \E r \in RequestIds : LoggedIn(r) /\ UNCHANGED nonLog
    \/ \E r \in RequestIds : LoginRejected(r) /\ UNCHANGED nonLog
    \/ \E r \in RequestIds : Fetched(r) /\ UNCHANGED nonLog
    \/ \E r \in RequestIds : FetchRejected(r) /\ UNCHANGED nonLog

SpecLog == Init /\ [][LogNext]_vars

(* ------------- the two strategies on the same first page ------------- *)
\* the upstream's first page and the window of the two invocations
ServeFirstPage ==
    /\ firstPage = NoPage
    /\ \E page \in IdentifiedPages, w \in Windows :
          firstPage' = page /\ orderWindow' = w
    /\ UNCHANGED <<simpleResult, enhancedResult, returned>>

\* fetchChatMessagesSimple answered with the page: filter, then reverse
SimpleOnPage ==
    /\ firstPage # NoPage /\ "simple" \notin returned
    /\ simpleResult' = Reverse(PageInRange(firstPage.records, orderWindow[1], orderWindow[2]))
    /\ returned' = returned \cup {"simple"}
    /\ UNCHANGED <<firstPage, orderWindow, enhancedResult>>

\* fetchChatMessagesEnhanced answered with the page, which ends the walk (an
\* older record or no token): the in-window records, then the final sort
EnhancedOnPage ==
    /\ firstPage # NoPage /\ "enhanced" \notin returned
    /\ BreaksAfterPage(PageHasOlder(firstPage.records, orderWindow[1], orderWindow[2]),
                       NextPageToken(firstPage.token))
    /\ enhancedResult' =
          SortMessages(PageInRange(firstPage.records, orderWindow[1], orderWindow[2]))
    /\ returned' = returned \cup {"enhanced"}
    /\ UNCHANGED <<firstPage, orderWindow, simpleResult>>

OrderNext ==
    \/ ServeFirstPage /\ UNCHANGED nonOrder
    \/ SimpleOnPage /\ UNCHANGED nonOrder
    \/ EnhancedOnPage /\ UNCHANGED nonOrder

SpecOrder == Init /\ [][OrderNext]_vars

(* ---------------------- DiagnosticsManager: timers -------------------- *)
\* time passes
Tick ==
    /\ clock < MaxClock
    /\ clock' = clock + 1
    /\ UNCHANGED <<constructed, managerStart, timer, ended>>

\* constructor(): this.startTime = Date.now()
Construct ==
    /\ ~constructed
    /\ constructed' = TRUE
    /\ \E origin \in EpochOrigins : managerStart' = DateNow(origin, clock)
    /\ UNCHANGED <<clock, timer, ended>>

\* startTimer(operation)
StartTimer ==
    /\ constructed
    /\ \E label \in TimerLabels : timer' = NewTimer(label, clock)
    /\ UNCHANGED <<clock, constructed, managerStart, ended>>

\* end() of the timer started last
EndTimer ==
    /\ timer # NoTimer
    /\ ended' = [operation |-> EndResult(timer, managerStart, clock).operation,
                 duration |-> EndResult(timer, managerStart, clock).duration,
                 elapsed |-> clock - timer.startTime]
    /\ timer' = NoTimer
    /\ UNCHANGED <<clock, constructed, managerStart>>

TimerNext ==
    \/ Tick /\ UNCHANGED nonTimer
    \/ Construct /\ UNCHANGED nonTimer
    \/ StartTimer /\ UNCHANGED nonTimer
    \/ EndTimer /\ UNCHANGED nonTimer

SpecTimer == Init /\ [][TimerNext]_vars

(* ------------------ DiagnosticsManager: api call counters ------------- *)
\* one recordApiCall(service, duration, error) made by one of the flows; the
\* function is synchronous, so no other flow runs inside it
RecordCall ==
    /\ Len(recorded) < MaxRecorded
    /\ \E flow \in Flows, d \in Durations, isError \in BOOLEAN :
          /\ statsTable' = RecordApiCallIn(statsTable, ServiceOf(flow), d, isError)
          /\ recorded' = Append(recorded, [flow |-> flow, service |-> ServiceOf(flow),
                                            duration |-> d, error |-> isError])

MetricsNext == RecordCall /\ UNCHANGED nonMetrics

SpecMetrics == Init /\ [][MetricsNext]_vars

(* ====================================================================== *)
(*                         properties of the fetchers                     *)
(* ====================================================================== *)
InWindow(r) == dateFrom <= r.t /\ r.t <= dateTo
Ascending(s) == \A i, j \in 1..Len(s) : i < j => s[i].t <= s[j].t
CountAt(s, t) == Cardinality({i \in 1..Len(s) : s[i].t = t})
PageRequests == SelectSeq(requests, LAMBDA q : q.recordCount # 1)
\* the result holds exactly the in-window records of the answered pages
ExactlyInWindowAnswered ==
    /\ \A i \in 1..Len(result) : result[i].t \in Times
    /\ \A t \in Times : CountAt(result, t) = inWindowServed[t]
EnhancedDone == strategy = "enhanced" /\ fpc = "done"

\* C1: every message returned by fetchChatMessagesEnhanced lies in the window
\* [dateFrom, dateTo] and the returned sequence is sorted non-decreasing by
\* creationTime, whatever the order of the upstream records.
C1_InWindowSorted ==
    EnhancedDone => (\A i \in 1..Len(result) : InWindow(result[i])) /\ Ascending(result)

\* the fetch returned at least two messages that were collected out of order,
\* from a history that also holds records outside the window
C1_Witness ==
    /\ EnhancedDone
    /\ Len(result) >= 2
    /\ allMessages # result
    /\ olderPage # 0

\* C2: when the first record older than dateFrom lies in page k, exactly k page
\* requests are issued and the result is exactly the records of pages 1..k with
\* dateFrom <= creationTime <= dateTo (both bounds kept), in ascending order.
C2_StopsAtPageK ==
    (EnhancedDone /\ olderPage # 0)
        => /\ Len(PageRequests) = olderPage
           /\ nServed = olderPage
           /\ ExactlyInWindowAnswered
           /\ Ascending(result)

\* a reverse-chronological feed whose boundary falls inside page 2 or later,
\* with a record at exactly dateFrom and one at exactly dateTo returned
C2_Witness ==
    /\ EnhancedDone
    /\ dateFrom < dateTo
    /\ olderPage >= 2
    /\ descending
    /\ \E i \in 1..Len(result) : result[i].t = dateFrom
    /\ \E i \in 1..Len(result) : result[i].t = dateTo

\* C3: once a fetched page holds a record older than dateFrom, no further
\* request is issued in the invocation.
C3_NoRequestAfterOlder ==
    [][olderPage # 0 => requests' = requests]_vars

\* the fetch ended on a page with an older record although that page carried a
\* continuation token and the cap was not reached
C3_Witness ==
    /\ EnhancedDone
    /\ olderPage # 0
    /\ pageToken # NoToken
    /\ pagesProcessed < maxPages

\* the first maxPages answers were all non-empty, with a token and no older record
CapReached == strategy = "enhanced" /\ nServed >= maxPages /\ allContinuing

\* C4: when the feed keeps answering non-empty pages with a token and no record
\* older than dateFrom, the fetch ends after exactly maxPages page requests,
\* does not fail, returns the in-range records collected and warns.
C4_CapTerminates ==
    CapReached => /\ fpc = "done"
                  /\ Len(PageRequests) = maxPages
                  /\ nServed = maxPages
                  /\ ExactlyInWindowAnswered
                  /\ Ascending(result)
                  /\ warned

\* the cap was reached with messages collected on the way
C4_Witness == CapReached /\ fpc = "done" /\ Len(result) >= 2 /\ warned

ProbeSucceeded == fpc \in {"paging", "done", "failed"} /\ probeError = NoError
ProbeNotFound == probeError # NoError /\ probeError.response = 404

\* C8: after a 404 on the probe of the teams route exactly one request went to
\* that route and every page request goes to the chats route; after a successful
\* probe every request goes to the teams route and none to the chats route.
C8_RouteResolution ==
    /\ ProbeNotFound =>
          /\ requests[1] = [route |-> <<"teams", chatId>>, recordCount |-> 1, pageToken |-> NoToken]
          /\ \A i \in 2..Len(requests) : requests[i].route = <<"chats", chatId>>
    /\ ProbeSucceeded =>
          \A i \in 1..Len(requests) : requests[i].route = <<"teams", chatId>>

\* a fetch that fell back to the chats route and requested several pages on it
C8_Witness ==
    /\ ProbeNotFound
    /\ strategy = "enhanced"
    /\ fpc = "done"
    /\ Len(requests) >= 3

ProbeFailedOther == probeError # NoError /\ probeError.response # 404

\* C9: a probe rejected with anything but a 404 response makes the fetch fail
\* without any page request, with a failure that names the conversation
\* identifier and the underlying cause (the message or the status of the error).
C9_ResolutionFailureNamesCause ==
    ProbeFailedOther =>
        /\ fpc = "failed"
        /\ Len(requests) = 1
        /\ \E i \in 1..Len(thrown.parts) : thrown.parts[i] = chatId
        /\ \/ \E i \in 1..Len(thrown.parts) : thrown.parts[i] = probeError.message
           \/ thrown.status # Undefined

PageFailed == strategy = "enhanced" /\ fpc = "failed" /\ Len(requests) >= 2

\* C10: a rejected page request at page index i makes the whole fetch fail with
\* a failure naming the route and i; no page is requested after it and none of
\* the messages collected before is returned.
C10_PageFailureAborts ==
    PageFailed =>
        /\ Len(PageRequests) = nServed + 1
        /\ thrown.parts = <<"Failed to fetch page", Len(PageRequests), "from",
                            requests[Len(requests)].route>>
        /\ thrown.service = "RingCentral"
        /\ result = <<>>
        /\ ~(ENABLED FetchNext)

\* a page request failed after two pages had been answered and messages collected
C10_Witness == PageFailed /\ nServed >= 2 /\ allMessages # <<>>

(* ====================================================================== *)
(*                        properties of the retry loop                    *)
(* ====================================================================== *)
\* the answers the loop must treat as transient overload
OverloadAnswers ==
    {a \in GeminiErrors : a.message \in {<<"5", "0", "3">>, <<"[", "5", "0", "3", "]">>}}
FirstOverloaded(n) == Len(answers) >= n /\ \A i \in 1..n : answers[i] \in OverloadAnswers

\* C5 as stated: after overload on the first three attempts a fourth call is
\* made, the waits being 2000, 4000 and 8000 ms.
C5_FourCalls ==
    FirstOverloaded(3) => spc # "failed" /\ waits = <<2000, 4000, 8000>> /\ ncalls = 4

\* C5 amended: overload on the first two attempts and success on the third
\* gives exactly three calls, waits of 2000 and 4000 ms, and the successful
\* text is returned; no invocation makes a fourth call.
C5_ThreeCalls ==
    /\ ncalls <= 3
    /\ (FirstOverloaded(2) /\ Len(answers) = 3 /\ answers[3].kind = "ok")
          => /\ spc = "done"
             /\ ncalls = 3
             /\ waits = <<2000, 4000>>
             /\ summary = answers[3].text

\* two overloads, then success
C5_Witness == FirstOverloaded(2) /\ Len(answers) = 3 /\ spc = "done"

\* C6: overload on three consecutive attempts ends the invocation after exactly
\* three calls with the APIError 'Gemini API is overloaded after multiple
\* retries.' of status 503; a fourth call is never made.
C6_OverloadFailure ==
    FirstOverloaded(3) =>
        /\ spc = "failed"
        /\ ncalls = 3
        /\ Len(answers) = 3
        /\ sthrown = [parts |-> <<"Gemini API is overloaded after multiple retries.">>,
                      status |-> 503, service |-> "Gemini"]
        /\ ~(ENABLED SummarizeNext)

\* three overloads answered
C6_Witness == FirstOverloaded(3) /\ spc = "failed"

LastAnswer == answers[Len(answers)]
NonTransientLast ==
    Len(answers) >= 1 /\ LastAnswer.kind = "error" /\ LastAnswer \notin OverloadAnswers

\* C7: a failure that is not the overload signal is never retried: no call and
\* no wait follows it, and the invocation fails with the APIError that carries
\* the message and the status of the failure.
C7_NoRetryOfOtherFailures ==
    NonTransientLast =>
        /\ spc = "failed"
        /\ ncalls = Len(answers)
        /\ Len(waits) = Len(answers) - 1
        /\ Len(events) = Len(answers) - 1
        /\ sthrown = [parts |-> <<"Gemini API error:", LastAnswer.message>>,
                      status |-> LastAnswer.status, service |-> "Gemini"]
        /\ ~(ENABLED SummarizeNext)

\* a non-transient failure on a retry, with a 5xx-looking message
C7_Witness ==
    /\ NonTransientLast
    /\ Len(answers) >= 2
    /\ LastAnswer.message = <<"5", "0", "0", "3">>

(* ====================================================================== *)
(*                 further properties of the fetchers                     *)
(* ====================================================================== *)
SimpleDone == strategy = "simple" /\ fpc = "done"

\* C12: fetchChatMessagesSimple issues exactly one page request after the
\* probe, without a page token, returns exactly the records of that page with
\* dateFrom <= creationTime <= dateTo, and for a reverse-chronological page
\* returns them in ascending order of creationTime.
C12_SimpleSinglePage ==
    SimpleDone =>
        /\ Len(requests) = 2
        /\ Len(PageRequests) = 1
        /\ PageRequests[1].pageToken = NoToken
        /\ nServed = 1
        /\ \A i \in 1..Len(result) : InWindow(result[i])
        /\ ExactlyInWindowAnswered
        /\ descending => Ascending(result)

\* a reverse-chronological page with two in-window records of different instants
C12_Witness ==
    /\ SimpleDone
    /\ descending
    /\ Len(result) >= 2
    /\ result[1].t < result[Len(result)].t

\* the continuation token the upstream attaches to its n-th page
TokenOfPage(n) == MkPage(n, <<>>, TRUE).token

\* C15: the first page request carries no token; the i-th page request carries
\* exactly the continuation token of page i-1; and as long as every answered
\* page was non-empty, with a token and without a record older than dateFrom
\* (for example only records newer than dateTo) and fewer than maxPages pages
\* were answered, the next page request has been issued.
C15_CursorFollowed ==
    /\ Len(PageRequests) >= 1 => PageRequests[1].pageToken = NoToken
    /\ \A i \in 2..Len(PageRequests) : PageRequests[i].pageToken = TokenOfPage(i - 1)
    /\ (strategy = "enhanced" /\ allContinuing /\ nServed >= 1 /\ nServed < maxPages)
          => /\ fpc \in {"paging", "failed"}
             /\ Len(PageRequests) = nServed + 1
    /\ EnhancedDone => (~allContinuing \/ nServed >= maxPages)

\* three page requests, the pages answered so far holding only records newer
\* than dateTo
C15_Witness ==
    /\ strategy = "enhanced"
    /\ fpc = "paging"
    /\ nServed >= 2
    /\ allContinuing
    /\ allMessages = <<>>
    /\ Len(PageRequests) = 3

(* ====================================================================== *)
(*               further properties of the retry loop                     *)
(* ====================================================================== *)
\* C16: every entry into the waiting state emits exactly one status event,
\* carrying the number of attempts that remain and the duration of the wait
\* that is performed; success, the final overload failure and a non-transient
\* failure emit none.
C16_BusyNotifications ==
    /\ Len(events) = Len(waits)
    /\ \A i \in 1..Len(events) :
          /\ events[i].type = "status"
          /\ events[i].waitTime * 1000 = waits[i]
          /\ events[i].retriesLeft = 3 - i
    /\ spc \in {"calling", "waiting"} => Len(events) = ncalls - (IF spc = "calling" THEN 1 ELSE 0)
    /\ spc \in {"done", "failed"} => Len(events) = Len(answers) - 1
    /\ ncalls <= 3

\* two waits were announced and performed before the invocation ended
C16_Witness == Len(events) = 2 /\ spc \in {"done", "failed"} /\ Len(answers) = 3

(* ====================================================================== *)
(*                  properties of the DiagnosticsManager                  *)
(* ====================================================================== *)
\* C17: end() returns the label of the timer and a duration equal to the time
\* elapsed between startTimer and end: non-negative, and independent of the
\* instant the DiagnosticsManager was constructed.
C17_TimerMeasuresElapsed ==
    ended # NoEnd => /\ ended.operation \in TimerLabels
                     /\ ended.duration = ended.elapsed
                     /\ ended.duration >= 0

RECURSIVE SumDurations(_, _)
\* the sum of the durations passed for a service in the first n invocations
SumDurations(svc, n) ==
    IF n = 0 THEN 0
    ELSE SumDurations(svc, n - 1)
           + (IF recorded[n].service = svc THEN recorded[n].duration ELSE 0)

CallsFor(svc) == Cardinality({i \in 1..Len(recorded) : recorded[i].service = svc})
ErrorsFor(svc) ==
    Cardinality({i \in 1..Len(recorded) : recorded[i].service = svc /\ recorded[i].error})
CountersMatch ==
    /\ \A i \in 1..Len(recorded) : recorded[i].service \in DOMAIN statsTable
    /\ \A svc \in DOMAIN statsTable :
          /\ statsTable[svc].calls = CallsFor(svc)
          /\ statsTable[svc].errors = ErrorsFor(svc)
          /\ statsTable[svc].totalTime = SumDurations(svc, Len(recorded))
          /\ statsTable[svc].errors <= statsTable[svc].calls
CountersGrow ==
    \A svc \in DOMAIN statsTable :
        /\ svc \in DOMAIN statsTable'
        /\ statsTable'[svc].calls >= statsTable[svc].calls
        /\ statsTable'[svc].errors >= statsTable[svc].errors

\* C18: after any interleaving of recordApiCall invocations of the flows, each
\* service's calls is the number of invocations naming it, errors the number of
\* those that passed an error, totalTime the sum of the durations passed;
\* calls and errors never decrease and errors <= calls.
C18_CountersExact == []CountersMatch /\ [][CountersGrow]_vars

\* three invocations by at least two flows, one of them for a service that had
\* no counters, one with an error
C18_Witness ==
    /\ Len(recorded) = 3
    /\ \E i, j \in 1..3 : recorded[i].flow # recorded[j].flow
    /\ "filesystem" \in DOMAIN statsTable
    /\ \E svc \in DOMAIN statsTable :
          statsTable[svc].calls = 2 /\ statsTable[svc].errors = 1 /\ statsTable[svc].totalTime # 0

(* ====================================================================== *)
(*          properties of the selector and of a fixed history             *)
(* ====================================================================== *)
ElapsedMs == Instant(now) - Instant(dateFrom)

\* C11 as stated: the single-page fetch is chosen exactly when the number of
\* elapsed whole days between from and now is <= 3.
C11_WholeDays ==
    Selected => (strategy = "simple" <=> ElapsedMs \div DayMs <= 3)

\* C11, amended: the single-page fetch is chosen exactly when the time elapsed
\* between from and now, rounded up to whole days, is <= 3, that is when at
\* most 72 hours have elapsed; the paginated fetch otherwise.
C11_RoundedUpDays ==
    Selected => /\ strategy = "simple" <=> ElapsedMs <= 3 * DayMs
                /\ strategy = "enhanced" <=> ElapsedMs > 3 * DayMs
                /\ daysDifference * DayMs >= ElapsedMs
                /\ (daysDifference - 1) * DayMs < ElapsedMs

\* from lies three days and a half in the past: the paginated fetch has run
C11_Witness ==
    /\ Selected /\ 2 * ElapsedMs = 7 * DayMs
    /\ strategy = "enhanced" /\ fpc = "done" /\ nServed >= 1

RECURSIVE Flatten(_)
Flatten(h) == IF h = <<>> THEN <<>> ELSE Head(h) \o Flatten(Tail(h))
History == feed[chatId].pages
\* a history as the upstream keeps it: newest first, no empty page
WellFormed(h) ==
    /\ \A i \in 1..Len(h) : h[i] # <<>>
    /\ \A i, j \in 1..Len(Flatten(h)) : i < j => Flatten(h)[i] >= Flatten(h)[j]
InWindowInHistory(t) ==
    IF dateFrom <= t /\ t <= dateTo
    THEN Cardinality({i \in 1..Len(Flatten(History)) : Flatten(History)[i] = t})
    ELSE 0

\* C13: whatever the window, fetchChatMessagesSmart returns every message of
\* the history that lies inside the window, those beyond the first page too.
C13_SmartReturnsBeyondFirstPage ==
    (Selected /\ runs = <<>> /\ fpc = "done" /\ WellFormed(History))
        => \A t \in Times : CountAt(result, t) = InWindowInHistory(t)

IsoPages(id) == feed[id].pages
IsoStops(p, from) == p = <<>> \/ \E i \in 1..Len(p) : p[i] < from
\* the last page it is answered
IsoLast(id, from) ==
    IF IsoPages(id) = <<>> THEN 1
    ELSE CHOOSE k \in 1..Len(IsoPages(id)) :
            /\ k = Len(IsoPages(id)) \/ k = maxPages \/ IsoStops(IsoPages(id)[k], from)
            /\ \A j \in 1..(k - 1) : ~IsoStops(IsoPages(id)[j], from) /\ j # maxPages
IsoProbeFails(id) == feed[id].probe # NoError /\ feed[id].probe.response # 404
IsoPageFails(id, from) == feed[id].failAt \in 1..IsoLast(id, from)
IsoRoute(id) == IF feed[id].probe = NoError THEN TeamsRoute(id) ELSE ChatsRoute(id)
IsoPageRequestCount(id, from) ==
    IF IsoPageFails(id, from) THEN feed[id].failAt ELSE IsoLast(id, from)
IsoRequests(id, from) ==
    <<ProbeRequest(TeamsRoute(id))>> \o
    [i \in 1..IsoPageRequestCount(id, from) |->
        PageRequest(IsoRoute(id), IF i = 1 THEN NoToken ELSE TokenOfPage(i - 1))]
IsoCollected(id, from, to) ==
    LET all == IF IsoPages(id) = <<>> THEN <<>>
               ELSE Flatten(SubSeq(IsoPages(id), 1, IsoLast(id, from)))
    IN  SelectSeq(all, LAMBDA t : from <= t /\ t <= to)
IsoResult(id, from, to) ==
    SortMessages([i \in 1..Len(IsoCollected(id, from, to)) |->
                     [t |-> IsoCollected(id, from, to)[i]]])

\* the invocation with locals l has ended as it would alone
AsInIsolation(l) ==
    l.fpc \in {"done", "failed"} =>
        /\ (l.fpc = "failed") = (IsoProbeFails(l.chatId) \/ IsoPageFails(l.chatId, l.dateFrom))
        /\ l.fpc = "done" => l.result = IsoResult(l.chatId, l.dateFrom, l.dateTo)
        /\ l.requests = IsoRequests(l.chatId, l.dateFrom)

\* C19: two fetchChatMessagesEnhanced invocations for different chats, their
\* awaits interleaved in any order, each return the result and issue the page
\* requests (route, tokens, count) they would in isolation.
C19_ConcurrentAsIsolated ==
    other # NoOther => AsInIsolation(Locals) /\ AsInIsolation(other)

\* both ended after two page requests each, interleaved, with different results
C19_Witness ==
    /\ other # NoOther
    /\ fpc = "done" /\ other.fpc = "done"
    /\ Len(requests) = 3 /\ Len(other.requests) = 3
    /\ result # <<>> /\ other.result # <<>> /\ result # other.result

(* ====================================================================== *)
(*                    properties of the report handler                    *)
(* ====================================================================== *)
\* the conversations made of the fetches ended before position k that returned
\* at least one message
RECURSIVE FetchedBefore(_)
FetchedBefore(k) ==
    IF k <= 1 THEN <<>>
    ELSE LET e == trace[k - 1]
         IN  IF e.op = "fetchEnd" /\ e.ok /\ e.messages # <<>>
             THEN Append(FetchedBefore(k - 1),
                         [groupName |-> GroupName(e.chatId), messages |-> e.messages,
                          chatId |-> e.chatId])
             ELSE FetchedBefore(k - 1)

\* C20: within one report request the chat ids are fetched one at a time in the
\* order given, a fetch starting only after the previous one has completed; the
\* summarization is started at most once, only after every fetch has completed
\* successfully, over the merged text of the conversations that returned at
\* least one message.
C20_FetchesThenOneSummarization ==
    /\ \A k \in 1..Len(trace) :
          /\ trace[k].op = "fetchStart" =>
                /\ k % 2 = 1
                /\ (k + 1) \div 2 <= Len(chatIds)
                /\ trace[k].chatId = chatIds[(k + 1) \div 2]
                /\ k > 1 => trace[k - 1].op = "fetchEnd" /\ trace[k - 1].ok
          /\ trace[k].op = "fetchEnd" =>
                /\ k > 1
                /\ trace[k - 1].op = "fetchStart"
                /\ trace[k - 1].chatId = trace[k].chatId
          /\ trace[k].op = "summarizeStart" =>
                /\ k = 2 * Len(chatIds) + 1
                /\ \A j \in 1..(k - 1) : trace[j].op = "fetchEnd" => trace[j].ok
                /\ trace[k].conversations = FetchedBefore(k)
                /\ trace[k].conversations # <<>>
                /\ trace[k].text = FullConversationText(FetchedBefore(k))
    /\ Cardinality({k \in 1..Len(trace) : trace[k].op = "summarizeStart"}) <= 1
    /\ hpc = "summarizing" => trace # <<>> /\ trace[Len(trace)].op = "summarizeStart"

\* two chats fetched, one without messages; the summarization started over the other
C20_Witness ==
    /\ Len(chatIds) = 2 /\ Len(trace) = 5
    /\ trace[5].op = "summarizeStart"
    /\ Len(trace[5].conversations) = 1
    /\ trace[2].messages = <<>>

(* ====================================================================== *)
(*                             termination                                *)
(* ====================================================================== *)
ProbeRequests == SelectSeq(requests, LAMBDA q : q.recordCount = 1)
RequestsCapped ==
    /\ Len(ProbeRequests) <= 1
    /\ Len(PageRequests) <= maxPages
    /\ ncalls <= 3

\* C21: whatever the services answer, fetchChatMessagesEnhanced ends after at
\* most one probe and maxPages (20) page requests, and the summarization after
\* at most 3 calls, provided every request is answered in the end.
C21_Terminates ==
    /\ []RequestsCapped
    /\ (fpc = "probing") ~> (fpc \in {"done", "failed"})
    /\ (spc = "calling") ~> (spc \in {"done", "failed"})

\* a history that never ends walked up to the cap, then overload on every call
C21_Witness ==
    /\ Selected /\ feed[chatId].endless
    /\ fpc = "done" /\ Len(PageRequests) = maxPages /\ nServed = maxPages
    /\ spc = "failed" /\ ncalls = 3 /\ FirstOverloaded(3)

(* ====================================================================== *)
(*                      properties of GET /health                         *)
(* ====================================================================== *)
\* C22: the status field of the /health response is 'unhealthy' when the system
\* health check reports at least one critical issue, 'warning' when it reports
\* warnings and no critical issue, 'healthy' otherwise.
C22_StatusFollowsSystemHealth ==
    (healthResponse # NoHealthResponse /\ ~host.validateThrows /\ ~host.reportThrows)
        => healthResponse.status =
              (IF SystemIssues(host) # {} THEN "unhealthy"
               ELSE IF SystemWarnings(host) # {} THEN "warning" ELSE "healthy")

(* ====================================================================== *)
(*                  properties of the range-incomplete warning            *)
(* ====================================================================== *)
\* C23: fetchChatMessagesEnhanced warns exactly when the page cap was reached
\* before the window was closed: never when the page that reaches the cap holds
\* a record older than from or carries no continuation token.
C23_WarnsOnlyWhenWindowOpen ==
    (fpc = "done" /\ strategy = "enhanced")
        => (warned <=> (/\ pagesProcessed >= maxPages
                        /\ ~foundOlderThanRange
                        /\ pageToken # NoToken))

(* ====================================================================== *)
(*                 properties of the events of a report                   *)
(* ====================================================================== *)
EventTypes(types) == SelectSeq(sse, LAMBDA e : e.type \in types)
FailedFetches == {k \in 1..Len(trace) : trace[k].op = "fetchEnd" /\ ~trace[k].ok}
KeptFetches ==
    {k \in 1..Len(trace) : trace[k].op = "fetchEnd" /\ trace[k].ok /\ trace[k].messages # <<>>}

\* C24: when the fetch of one chat id fails, the request ends with an 'error'
\* event naming the failure, nothing is added to the conversations for that
\* chat, no summarization is started and the response is ended.
C24_FetchFailureSurfaced ==
    FailedFetches # {}
        => /\ hpc = "ended"
           /\ FailedFetches = {Len(trace)}
           /\ sse[Len(sse)].type = "error" /\ sse[Len(sse)].message \in Causes
           /\ Len(EventTypes({"error"})) = 1
           /\ EventTypes({"done", "report"}) = <<>>
           /\ \A k \in 1..Len(trace) : trace[k].op # "summarizeStart"
           /\ Len(allConversations) = Cardinality(KeptFetches)

\* the second chat failed after the first had returned messages
C24_Witness ==
    /\ FailedFetches # {} /\ Len(chatIds) = 2 /\ chatIndex = 2
    /\ Len(allConversations) = 1 /\ hpc = "ended"

SummarizationSucceeded ==
    \E k \in 1..Len(recorded) : recorded[k].service = "gemini" /\ ~recorded[k].error

\* C25: when the configuration is valid, login succeeds, a conversation returns
\* a message and the summarization succeeds, the handler emits a 'report' event
\* followed by a 'done' event and no 'error' event.
C25_SuccessEmitsReport ==
    (hpc = "ended" /\ SummarizationSucceeded)
        => /\ Len(sse) >= 2
           /\ sse[Len(sse) - 1].type = "report"
           /\ sse[Len(sse)].type = "done"
           /\ EventTypes({"error"}) = <<>>

TerminalEvents == EventTypes({"done", "error"})
TerminalThenEnd ==
    /\ streamEnds <= 1
    /\ (hpc = "ended") <=> (streamEnds = 1)
    /\ streamEnds = 0 => TerminalEvents = <<>>
    /\ streamEnds = 1 => /\ Len(TerminalEvents) = 1
                         /\ sse[Len(sse)] = TerminalEvents[1]
\* nothing is written and nothing is ended again once the stream is ended
NothingAfterEnd == streamEnds >= 1 => sse' = sse /\ streamEnds' = streamEnds

\* C26: every report request writes exactly one terminal event, 'done' or
\* 'error' and never both, as its last event, then ends the stream exactly
\* once; no event is written after the end.
C26_OneTerminalEvent == []TerminalThenEnd /\ [][NothingAfterEnd]_vars

\* a request ended by 'done' (no messages found) after two fetches
C26_Witness ==
    /\ hpc = "ended" /\ streamEnds = 1 /\ Len(chatIds) = 2
    /\ sse[Len(sse)].type = "done"
\* a request ended by 'error' after the summarization returned
C26_WitnessError ==
    /\ hpc = "ended" /\ streamEnds = 1 /\ SummarizationSucceeded
    /\ sse[Len(sse)].type = "error"

(* ====================================================================== *)
(*                 properties of the metrics of a fetch                   *)
(* ====================================================================== *)
\* C27: when fetchChatMessagesEnhanced has ended, the calls it recorded for
\* 'ringcentral' equal the page requests it made, the last page of the walk
\* included, and the errors recorded equal the page requests that failed.
C27_EveryPageRecorded ==
    (strategy = "enhanced" /\ fpc \in {"done", "failed"} /\ probeError = NoError)
        => /\ apiCallStats.calls = Len(PageRequests)
           /\ apiCallStats.errors = (IF fpc = "failed" THEN 1 ELSE 0)

(* ====================================================================== *)
(*                 properties of the request counters                     *)
(* ====================================================================== *)
\* C28: requestCount is the number of requests the server received and
\* errorCount the number of those that failed: a failing request raises
\* requestCount by exactly one.
C28_CountsRequestsOnce ==
    /\ requestCount = (IF hpc = "idle" THEN 0 ELSE 1)
    /\ errorCount = (IF hpc = "ended" /\ EventTypes({"error"}) # <<>> THEN 1 ELSE 0)

(* ====================================================================== *)
(*                      properties of the log entries                     *)
(* ====================================================================== *)
\* C29: with requests handled at the same time, every log entry written on
\* behalf of a request carries the correlation id of that request.
C29_OwnCorrelationId ==
    \A k \in 1..Len(logEntries) :
        logEntries[k].correlationId = reqCorrelationId[logEntries[k].request]

(* ====================================================================== *)
(*                  the two strategies on the same feed                   *)
(* ====================================================================== *)
\* C30: on a feed ordered by non-increasing creation time, ties allowed, whose
\* first page holds a record older than from, fetchChatMessagesSimple and
\* fetchChatMessagesEnhanced return the same ordered sequence of messages.
C30_StrategyNotObservable ==
    (/\ returned = {"simple", "enhanced"}
     /\ PageHasOlder(firstPage.records, orderWindow[1], orderWindow[2]))
        => simpleResult = enhancedResult

====
